---- MODULE Spec2Model ----
(***************************************************************************)
(* Model of tscc_repair_step (src/tscc_core.py).                           *)
(*                                                                         *)
(* Arrays are numpy ndarrays: a shape and a flat, row-major data sequence. *)
(* Numbers are fixed-point integers (one common scale for W, gamma and     *)
(* eta * grad), so that the update and the clamp are exact.                *)
(* One call is a sequence of steps, one per statement of the function;     *)
(* a statement that raises ends the call in pc = "failed" with the         *)
(* exception class in `error`.  Objects live in `heap`, so that in-place   *)
(* writes (index assignment) and fresh results (operators) are distinct.   *)
(* scipy.linalg.eigh is not computable over the integers: the model keeps  *)
(* what the code uses of it, the number of eigenpairs (the order of L1)    *)
(* and a gap eigenvector of that length chosen from a bounded set.         *)
(***************************************************************************)
EXTENDS Integers, Sequences, FiniteSets, TLC

\* ---------------------------------------------------------------- bounds
MaxE == 2          \* largest number of edges (rows of W, rows of B1)
MaxV == 3          \* largest number of vertices (columns of B1)
MaxForbidden == 1  \* largest number of indices in forbidden_edges

\* sample values, in fixed-point units
Weights == {0 - 1, 0, 1}       \* entries of the input W
Etas == {0, 1}                 \* eta
Gammas == {0 - 1, 0, 1}        \* gamma
Components == {0 - 1, 0, 1}    \* components of the gap eigenvector

\* ---------------------------------------------------------------- ndarrays
None == [shape |-> <<0 - 1>>, d |-> <<>>]

NDim(A) == Len(A.shape)
Rows(A) == A.shape[1]
Cols(A) == A.shape[2]

Vec(s) == [shape |-> <<Len(s)>>, d |-> s]
Mat(r, c, f) ==
    [shape |-> <<r, c>>, d |-> [k \in 1..(r * c) |-> f[((k - 1) \div c) + 1, ((k - 1) % c) + 1]]]

At2(A, i, j) == A.d[(i - 1) * Cols(A) + j]

RECURSIVE SumTo(_, _)
SumTo(f, n) == IF n = 0 THEN 0 ELSE f[n] + SumTo(f, n - 1)

\* B1.T
Transpose(A) ==
    Mat(Cols(A), Rows(A), [i \in 1..Cols(A), j \in 1..Rows(A) |-> At2(A, j, i)])

\* a matmul that accepts a longer second operand and truncates it
MatMulTruncating(A, B) ==
    CASE NDim(A) = 2 /\ NDim(B) = 2 -> Cols(A) <= Rows(B)
      [] NDim(A) = 2 /\ NDim(B) = 1 -> Cols(A) <= Rows(B)
      [] NDim(A) = 1 /\ NDim(B) = 2 -> Rows(B) <= Rows(A)
      [] OTHER -> FALSE

\* numpy matmul (the @ operator) on 1-D and 2-D operands: shape rule
MatMulOK(A, B) ==
    CASE NDim(A) = 2 /\ NDim(B) = 2 -> Cols(A) = Rows(B)
      [] NDim(A) = 2 /\ NDim(B) = 1 -> Cols(A) = Rows(B)
      [] NDim(A) = 1 /\ NDim(B) = 2 -> Rows(A) = Rows(B)
      [] OTHER -> FALSE

\* numpy matmul: value (defined when MatMulOK)
MatMul(A, B) ==
    CASE NDim(A) = 2 /\ NDim(B) = 2 ->
           Mat(Rows(A), Cols(B),
               [i \in 1..Rows(A), j \in 1..Cols(B) |-> SumTo([k \in 1..Cols(A) |-> At2(A, i, k) * At2(B, k, j)], Cols(A))])
      [] NDim(A) = 2 /\ NDim(B) = 1 ->
           Vec([i \in 1..Rows(A) |->
                  SumTo([k \in 1..Cols(A) |-> At2(A, i, k) * B.d[k]], Cols(A))])
      [] NDim(A) = 1 /\ NDim(B) = 2 ->
           Vec([j \in 1..Cols(B) |->
                  SumTo([k \in 1..Rows(B) |-> A.d[k] * At2(B, k, j)], Rows(B))])

\* ---------------------------------------------------------------- the statements
\* numpy integer indexing into an axis of length n: i is valid iff -n <= i < n,
\* and a negative i counts from the end
IndexOK(i, n) == (0 - n) <= i /\ i < n
NormIndex(i, n) == IF i < 0 THEN i + n ELSE i

\* line 30: L1 = B1.T @ W @ B1, evaluated left to right
LaplacianOK(W, B1) ==
    /\ MatMulOK(Transpose(B1), W)
    /\ MatMulOK(MatMul(Transpose(B1), W), B1)
Laplacian(W, B1) == MatMul(MatMul(Transpose(B1), W), B1)

\* line 33: la.eigh accepts a square 2-D array and returns one eigenpair per row
EighOK(L) == NDim(L) = 2 /\ Rows(L) = Cols(L)
NumEig(L) == Rows(L)

\* lines 36-37: evals[1], evecs[:, 1]; an eigenvector has unit norm, so it is
\* not the zero vector.  GapVectors is every nonzero vector of the right length:
\* a superset of what eigh can return, which is unique only up to sign and, in
\* a degenerate eigenspace, up to rotation
\* variant: the smallest eigenpair, index 0, is selected
FirstIndex == 1 - 1
GapIndex == 1
SelectOK(n) == IndexOK(GapIndex, n)
GapVectors(n) ==
    {v \in [1..n -> Components] : \E k \in 1..n : v[k] # 0}

\* line 40: (B1 @ v_gap)**2
Square(A) == [A EXCEPT !.d = [k \in 1..Len(A.d) |-> A.d[k] * A.d[k]]]
Gradient(B1, v) == Square(MatMul(B1, Vec(v)))

\* line 44: grad_W[forbidden_edges] = 0
Indices(F) == {F.d[k] : k \in 1..Len(F.d)}
MaskOK(g, F) == \A i \in Indices(F) : IndexOK(i, Rows(g))
\* variant: the assignment of line 44 is missing
MaskNothing(g, F) == g
Masked(g, F) == {NormIndex(i, Rows(g)) + 1 : i \in Indices(F)}
Mask(g, F) == [g EXCEPT !.d = [k \in 1..Len(g.d) |-> IF k \in Masked(g, F) THEN 0 ELSE g.d[k]]]

\* line 47: W + eta * grad_W - gamma; numpy aligns the 1-D gradient with the
\* last axis of W, so a 2-D W gets grad_W[j] added to every entry of column j
BroadcastOK(W, g) ==
    CASE NDim(W) = 2 -> Cols(W) = Rows(g) \/ Rows(g) = 1 \/ Cols(W) = 1
      [] OTHER -> Rows(W) = Rows(g) \/ Rows(g) = 1 \/ Rows(W) = 1
\* variant: the learning rate is dropped from the update
UpdateIgnoringEta(W, g, e, c) ==
    Mat(Rows(W), Cols(W),
        [i \in 1..Rows(W), j \in 1..Cols(W) |-> At2(W, i, j) + g.d[j] - c])
Update(W, g, e, c) ==
    IF NDim(W) = 2
    THEN LET n == IF Cols(W) = 1 THEN Rows(g) ELSE Cols(W)
         IN  Mat(Rows(W), n,
                 [i \in 1..Rows(W), j \in 1..n |->
                    At2(W, i, IF Cols(W) = 1 THEN 1 ELSE j)
                    + e * g.d[IF Rows(g) = 1 THEN 1 ELSE j] - c])
    ELSE Vec([j \in 1..(IF Rows(W) = 1 THEN Rows(g) ELSE Rows(W)) |->
                W.d[IF Rows(W) = 1 THEN 1 ELSE j]
                + e * g.d[IF Rows(g) = 1 THEN 1 ELSE j] - c])

\* line 50: W_new[W_new < 0] = 0
\* variant: the threshold of the projection is off by one
ClampBelowMinusOne(A) ==
    [A EXCEPT !.d = [k \in 1..Len(A.d) |-> IF A.d[k] < 0 - 1 THEN 0 ELSE A.d[k]]]
Clamp(A) == [A EXCEPT !.d = [k \in 1..Len(A.d) |-> IF A.d[k] < 0 THEN 0 ELSE A.d[k]]]

\* line 47 binds W_new to the fresh array the operators return
\* variant: the update is written into the caller's W (W += ...)
UpdateInPlace == "W"
UpdateTarget == "W_new"

\* ---------------------------------------------------------------- state
VARIABLES
    heap,      \* object name |-> ndarray (None while not created)
    eta,       \* argument eta
    gamma,     \* argument gamma
    neig,      \* number of eigenpairs eigh returned (-1 before)
    v_gap,     \* evecs[:, 1]
    W_new,     \* the object the local name W_new is bound to ("" before)
    ret,       \* the object returned ("" until the call returns)
    pc,        \* next statement, or "done" / "failed"
    error,     \* exception class when pc = "failed"
    entry      \* the arguments' values at the start of the call

vars == <<heap, eta, gamma, neig, v_gap, W_new, ret, pc, error, entry>>

Args == {"W", "B1", "forbidden_edges"}
Locals == {"L1", "grad_W", "W_new"}
Objs == Args \cup Locals

\* ---------------------------------------------------------------- inputs
Diag(s) ==
    Mat(Len(s), Len(s), [i \in 1..Len(s), j \in 1..Len(s) |-> IF i = j THEN s[i] ELSE 0])

\* oriented incidence of a path/cycle: edge e leaves vertex e and enters e+1
Boundary(r, c) ==
    Mat(r, c, [e \in 1..r, v \in 1..c |->
                 IF c = 1 THEN 1
                 ELSE IF v = ((e - 1) % c) + 1 THEN 0 - 1
                 ELSE IF v = (e % c) + 1 THEN 1 ELSE 0])

WeightSeqs == UNION {[1..n -> Weights] : n \in 1..MaxE}
WInputs == {Diag(s) : s \in WeightSeqs} \cup {Vec(s) : s \in WeightSeqs}
B1Inputs == {Boundary(r, c) : r \in 1..MaxE, c \in 1..MaxV}
IndexInputs == (0 - (MaxE + 1))..MaxE
\* a list of distinct indices, in ascending order
Ascending(s) == \A k \in 1..(Len(s) - 1) : s[k] < s[k + 1]
ForbiddenInputs ==
    {Vec(s) : s \in {t \in UNION {[1..n -> IndexInputs] : n \in 0..MaxForbidden} : Ascending(t)}}

Snapshot(h) == [a \in Args |-> h[a]]

Init ==
    /\ \E w \in WInputs, b \in B1Inputs, f \in ForbiddenInputs :
          heap = [o \in Objs |-> CASE o = "W" -> w
                                   [] o = "B1" -> b
                                   [] o = "forbidden_edges" -> f
                                   [] OTHER -> None]
    /\ eta \in Etas
    /\ gamma \in Gammas
    /\ neig = 0 - 1
    /\ v_gap = <<>>
    /\ W_new = ""
    /\ ret = ""
    /\ pc = "laplacian"
    /\ error = ""
    /\ entry = Snapshot(heap)

Raise(e) ==
    /\ pc' = "failed"
    /\ error' = e

\* line 30
BuildLaplacian ==
    /\ pc = "laplacian"
    /\ IF LaplacianOK(heap["W"], heap["B1"])
       THEN /\ heap' = [heap EXCEPT !["L1"] = Laplacian(heap["W"], heap["B1"])]
            /\ pc' = "eigh"
            /\ UNCHANGED error
       ELSE /\ Raise("ValueError")
            /\ UNCHANGED heap
    /\ UNCHANGED <<eta, gamma, neig, v_gap, W_new, ret, entry>>

\* line 33
Eigh ==
    /\ pc = "eigh"
    /\ IF EighOK(heap["L1"])
       THEN /\ neig' = NumEig(heap["L1"])
            /\ pc' = "select"
            /\ UNCHANGED error
       ELSE /\ Raise("ValueError")
            /\ UNCHANGED neig
    /\ UNCHANGED <<heap, eta, gamma, v_gap, W_new, ret, entry>>

\* lines 36-37
SelectGap ==
    /\ pc = "select"
    /\ IF SelectOK(neig)
       THEN /\ v_gap' \in GapVectors(neig)
            /\ pc' = "gradient"
            /\ UNCHANGED error
       ELSE /\ Raise("IndexError")
            /\ UNCHANGED v_gap
    /\ UNCHANGED <<heap, eta, gamma, neig, W_new, ret, entry>>

\* line 40
ComputeGradient ==
    /\ pc = "gradient"
    /\ heap' = [heap EXCEPT !["grad_W"] = Gradient(heap["B1"], v_gap)]
    /\ pc' = "mask"
    /\ UNCHANGED <<eta, gamma, neig, v_gap, W_new, ret, error, entry>>

\* line 44
ApplyMask ==
    /\ pc = "mask"
    /\ IF MaskOK(heap["grad_W"], heap["forbidden_edges"])
       THEN /\ heap' = [heap EXCEPT !["grad_W"] = Mask(heap["grad_W"], heap["forbidden_edges"])]
            /\ pc' = "update"
            /\ UNCHANGED error
       ELSE /\ Raise("IndexError")
            /\ UNCHANGED heap
    /\ UNCHANGED <<eta, gamma, neig, v_gap, W_new, ret, entry>>

\* line 47
GradientAscent ==
    /\ pc = "update"
    /\ IF BroadcastOK(heap["W"], heap["grad_W"])
       THEN /\ heap' = [heap EXCEPT ![UpdateTarget] =
                           Update(heap["W"], heap["grad_W"], eta, gamma)]
            /\ W_new' = UpdateTarget
            /\ pc' = "clamp"
            /\ UNCHANGED error
       ELSE /\ Raise("ValueError")
            /\ UNCHANGED <<heap, W_new>>
    /\ UNCHANGED <<eta, gamma, neig, v_gap, ret, entry>>

\* line 50
Project ==
    /\ pc = "clamp"
    /\ heap' = [heap EXCEPT ![W_new] = Clamp(heap[W_new])]
    /\ pc' = "return"
    /\ UNCHANGED <<eta, gamma, neig, v_gap, W_new, ret, error, entry>>

\* line 52
Return ==
    /\ pc = "return"
    /\ ret' = W_new
    /\ pc' = "done"
    /\ UNCHANGED <<heap, eta, gamma, neig, v_gap, W_new, error, entry>>

Next ==
    \/ BuildLaplacian
    \/ Eigh
    \/ SelectGap
    \/ ComputeGradient
    \/ ApplyMask
    \/ GradientAscent
    \/ Project
    \/ Return

Spec == Init /\ [][Next]_vars

\* ---------------------------------------------------------------- properties
Done == pc = "done"
Failed == pc = "failed"
Result == heap[ret]
EntryW == entry["W"]
EntryB1 == entry["B1"]
Forbidden == Indices(entry["forbidden_edges"])
E == Rows(EntryW)
Max0(x) == IF x < 0 THEN 0 ELSE x
\* the weight of edge e (1-based) in a weight matrix
Weight(A, e) == At2(A, e, e)
\* the edge (1-based) a forbidden index addresses
Edge(i) == NormIndex(i, E) + 1
\* what line 47 computes from the call's inputs and the masked gradient
PreProjection == Update(EntryW, heap["grad_W"], eta, gamma)
RawGradient == Gradient(EntryB1, v_gap)
NonNegative(A) == \A k \in 1..Len(A.d) : A.d[k] >= 0
IsDiagonal(A) ==
    /\ NDim(A) = 2
    /\ \A i \in 1..Rows(A), j \in 1..Cols(A) : i # j => At2(A, i, j) = 0
\* the inputs the data model admits, but for the index range and the shapes
ValidNumbers == NonNegative(EntryW) /\ gamma >= 0
IndicesInRange == \A i \in Forbidden : 0 <= i /\ i < E
NoLocalCreated == \A o \in Locals : heap[o] = None

\* C1: when the input weights are all >= 0, every entry of the returned array
\* is >= 0, and an entry whose value W + eta*grad - gamma before the projection
\* is below 0 is returned as exactly 0.
C1_NonNegative ==
    (Done /\ NonNegative(EntryW)) =>
        \A k \in 1..Len(Result.d) :
            /\ Result.d[k] >= 0
            /\ (PreProjection.d[k] < 0 => Result.d[k] = 0)
C1_Witness ==
    /\ Done
    /\ NonNegative(EntryW)
    /\ \E e \in 1..E : Weight(PreProjection, e) < 0

\* C2: for every index i in forbidden_edges the returned weight of edge i is
\* max(0, W[i] - gamma), whatever eta and whatever the gradient.
C2_Masking ==
    Done => \A i \in Forbidden :
                Weight(Result, Edge(i)) = Max0(Weight(EntryW, Edge(i)) - gamma)
C2_Witness ==
    /\ Done
    /\ eta > 0
    /\ \E i \in Forbidden : RawGradient.d[Edge(i)] > 0

\* C3 (as claimed): with gamma >= 0, in a call (any call of a sequence in which
\* each output is the next input) the returned weight of every forbidden edge
\* is at most its input weight.
C3_NeverIncreases ==
    (Done /\ gamma >= 0 /\ IndicesInRange) =>
        \A i \in Forbidden : Weight(Result, Edge(i)) <= Weight(EntryW, Edge(i))

\* C4: at every point of a call, and after it, successful or failing, the
\* caller's W, B1 and forbidden_edges hold their values from before the call,
\* and W_new / the returned array is an object distinct from every argument.
C4_ArgumentsUntouched ==
    /\ \A a \in Args : heap[a] = entry[a]
    /\ W_new \notin Args
    /\ ret \notin Args
C4_Witness ==
    /\ Done
    /\ \E i \in Forbidden : RawGradient.d[Edge(i)] > 0
    /\ \E k \in 1..Len(Result.d) : PreProjection.d[k] < 0
    /\ Result # EntryW

\* C5 (as claimed): the returned W_new has one entry per edge, laid out as W:
\* given a diagonal weight matrix it has W's shape and nothing off the diagonal.
C5_OneEntryPerEdge ==
    (Done /\ IsDiagonal(EntryW) /\ ValidNumbers /\ IndicesInRange) =>
        /\ Result.shape = EntryW.shape
        /\ IsDiagonal(Result)

\* C6: when eta = 0 every returned entry is max(0, W - gamma), forbidden or
\* not, whatever B1 and the selected eigenvector.
C6_ZeroEta ==
    (Done /\ eta = 0) =>
        /\ Result.shape = EntryW.shape
        /\ \A k \in 1..Len(Result.d) : Result.d[k] = Max0(EntryW.d[k] - gamma)
C6_Witness ==
    /\ Done
    /\ eta = 0
    /\ \E e \in 1..E : heap["grad_W"].d[e] > 0

\* C7 (as claimed): a forbidden index < 0 or >= E makes the call fail; it never
\* gets as far as the update, let alone returns.
C7_OutOfRangeFails ==
    (ValidNumbers /\ \E i \in Forbidden : i < 0 \/ i >= E) =>
        pc \notin {"update", "clamp", "return", "done"}

\* C8 (as claimed): a call whose B1 has a column count different from len(W)
\* returns no weight vector.
C8_ColumnMismatchFails ==
    (ValidNumbers /\ IndicesInRange /\ Cols(EntryB1) # E) => ~Done

\* C8 (amended): a call whose B1 has a row count different from len(W) raises
\* ValueError in the Laplacian product; no local array is created, nothing is
\* returned.
C8_RowMismatchFails ==
    Rows(EntryB1) # E =>
        /\ pc \in {"laplacian", "failed"}
        /\ NoLocalCreated
        /\ ret = ""
        /\ (Failed => error = "ValueError")
C8_Witness ==
    /\ Failed
    /\ NDim(EntryW) = 2
    /\ Rows(EntryB1) < E

\* C9 (as claimed): a call with a negative entry in W does not return.
C9_NegativeWeightFails ==
    (gamma >= 0 /\ IndicesInRange /\ \E k \in 1..Len(EntryW.d) : EntryW.d[k] < 0) => ~Done

\* a Laplacian with fewer than 2 rows has been built
SmallLaplacian ==
    /\ heap["L1"] # None
    /\ NDim(heap["L1"]) = 2
    /\ Rows(heap["L1"]) < 2

\* C10 (as claimed): with a Laplacian of fewer than 2 rows the call fails with
\* the error InsufficientSpectrum.
C10_InsufficientSpectrum ==
    (ValidNumbers /\ IndicesInRange /\ SmallLaplacian /\ Failed) => error = "InsufficientSpectrum"

\* C10 (amended): with a Laplacian of fewer than 2 rows the call fails with
\* IndexError at the selection of eigenpair 1, after eigh and before any
\* gradient, mask or update exists, and returns nothing.
C10_FailsAtSelection ==
    SmallLaplacian =>
        /\ pc \in {"eigh", "select", "failed"}
        /\ heap["grad_W"] = None
        /\ heap["W_new"] = None
        /\ W_new = ""
        /\ ret = ""
        /\ (Failed => (error = "IndexError" /\ neig = Rows(heap["L1"]) /\ v_gap = <<>>))
C10_Witness ==
    /\ SmallLaplacian
    /\ Failed
    /\ error = "IndexError"

====
